---- MODULE Spec2Model ----
(***************************************************************************)
(* Operation progress tracker of the app detail page                       *)
(* (src/src/app/(dashboard)/apps/[id]/page.tsx, pollForUpdates) together   *)
(* with the progress modal and its error parser (src/unnamed/part_001).    *)
(*                                                                         *)
(* Strings are TLA+ strings; includes() is a real substring search and     *)
(* toLowerCase() a real character map, so the trigger rules are evaluated  *)
(* on the text the log endpoint returned.                                  *)
(***************************************************************************)
EXTENDS Integers, Sequences, FiniteSets, TLC

VARIABLES
    progressModal,  \* page.tsx:157-173, the useState record shown by ProgressModal
    pollers,        \* one entry per pollForUpdates call: its closure (operationType,
                    \* attempts), its interval (armed), the ticks whose fetch is
                    \* outstanding (inflight) and, as history, the highest tick
                    \* whose response was written (applied)
    pending,        \* mutations whose request is in flight (isPending)
    last,           \* history: the event that produced this state
    writer,         \* history: the poller whose write the model content comes from
    call            \* the arguments and the result of a call of one of the pure
                    \* functions (the classification of a tick, parseError)

vars == <<progressModal, pollers, pending, last, writer, call>>

(***************************************************************************)
(* Bounds of the exploration                                               *)
(***************************************************************************)
\* number of pollForUpdates calls explored
MaxPollers == 2
\* timer ticks, of all pollers together, explored by Spec
MaxTicks == 2
\* timer periods a fetch may stay outstanding before it resolves or rejects
MaxLag == 2
\* timer ticks past maxAttempts explored by SpecCeiling
MaxOverrun == 2
\* fragments a text is built from in SpecClassify and SpecParse
MaxFragments == 2

(***************************************************************************)
(* Program constants                                                       *)
(***************************************************************************)
maxAttempts == 60

\* what api.getAppLogs can return: the log text and the status field
LogTexts ==
    { "",
      "Downloading source... Found package.json... Building image...",
      "Starting container... success",
      "Stopping container",
      "Build Failed: permission denied" }

Statuses == { "deploying", "running", "stopped", "error" }

\* the log texts of two complete runs: a deploy that succeeds, a stop that fails
DeploySuccessLog ==
    "Downloading source... Found package.json... Building image... Starting container... success"
StopErrorLog == "Stopping container failed: permission denied"
ScenarioTexts == {DeploySuccessLog, StopErrorLog}

\* the label of an array element created by { ...undefined, status: "error" }
undefined == "<undefined>"

(***************************************************************************)
(* String primitives                                                       *)
(***************************************************************************)
\* String.prototype.includes
Includes(s, sub) ==
    \E i \in 1..(Len(s) - Len(sub) + 1) : SubSeq(s, i, i + Len(sub) - 1) = sub

UpperCase == "ABCDEFGHIJKLMNOPQRSTUVWXYZ"
LowerCase == "abcdefghijklmnopqrstuvwxyz"

LowerChar(c) ==
    IF \E i \in 1..Len(UpperCase) : SubSeq(UpperCase, i, i) = c
    THEN LET i == CHOOSE j \in 1..Len(UpperCase) : SubSeq(UpperCase, j, j) = c
         IN  SubSeq(LowerCase, i, i)
    ELSE c

\* String.prototype.toLowerCase
RECURSIVE ToLowerCase(_)
ToLowerCase(s) ==
    IF Len(s) = 0 THEN ""
    ELSE LowerChar(SubSeq(s, 1, 1)) \o ToLowerCase(SubSeq(s, 2, Len(s)))

Digits == "0123456789"
IsDigit(c) == \E i \in 1..Len(Digits) : SubSeq(Digits, i, i) = c
\* the character class [\d.:]
IsAddrChar(c) == IsDigit(c) \/ c = "." \/ c = ":"

\* the characters from..to of s match \d+, respectively [\d.:]+
AllDigits(s, from, to) == \A i \in from..to : IsDigit(SubSeq(s, i, i))
AllAddrChars(s, from, to) == \A i \in from..to : IsAddrChar(SubSeq(s, i, i))

\* sub occurs in s at position i
At(s, i, sub) ==
    /\ i + Len(sub) - 1 <= Len(s)
    /\ SubSeq(s, i, i + Len(sub) - 1) = sub

\* error.match(/Bind for [\d.:]+:(\d+) failed/): the matches as
\* <<start, end of the first class run, end of the digits>>
BindMatches(s) ==
    UNION { UNION { { <<i, e, f>> :
                      f \in { g \in (e + 2)..Len(s) :
                                AllDigits(s, e + 2, g) /\ At(s, g + 1, " failed") } } :
                    e \in { d \in (i + 9)..Len(s) :
                              AllAddrChars(s, i + 9, d) /\ At(s, d + 1, ":") } } :
            i \in { b \in 1..Len(s) : At(s, b, "Bind for ") } }

\* match[1] of the leftmost match, the first quantifier greedy
BindPort(s) ==
    LET ms == BindMatches(s)
        i  == CHOOSE x \in { m[1] : m \in ms } : \A m \in ms : x <= m[1]
        e  == CHOOSE x \in { m[2] : m \in { n \in ms : n[1] = i } } :
                  \A m \in { n \in ms : n[1] = i } : x >= m[2]
        f  == CHOOSE x \in { m[3] : m \in { n \in ms : n[1] = i /\ n[2] = e } } :
                  \A m \in { n \in ms : n[1] = i /\ n[2] = e } : x >= m[3]
    IN  SubSeq(s, e + 2, f)

\* parseError with the permission rule tried before the connection rule
parseError_reordered(error) ==
    IF Includes(error, "port is already allocated")
    THEN LET port == IF BindMatches(error) # {} THEN BindPort(error) ELSE "unknown"
         IN  "Port " \o port \o " is already in use. Please stop any other applications using this port."
    ELSE IF Includes(error, "Dockerfile: no such file")
    THEN "No Dockerfile found. Please ensure your project has a valid Dockerfile."
    ELSE IF Includes(error, "docker-compose") /\ Includes(error, "not found")
    THEN "Docker Compose is not installed. Please install Docker Desktop."
    ELSE IF Includes(error, "permission denied")
    THEN "Permission denied. Docker may require elevated privileges."
    ELSE IF Includes(error, "connection refused")
    THEN "Docker daemon is not running. Please start Docker Desktop."
    ELSE IF Includes(error, "out of memory") \/ Includes(error, "OOM")
    THEN "Container ran out of memory. Consider increasing memory limits."
    ELSE IF Includes(error, "network") /\ Includes(error, "not found")
    THEN "Docker network not found. Try running 'docker network create' or restart Docker."
    ELSE error

parseError(error) ==
    IF Includes(error, "port is already allocated")
    THEN LET port == IF BindMatches(error) # {} THEN BindPort(error) ELSE "unknown"
         IN  "Port " \o port \o " is already in use. Please stop any other applications using this port."
    ELSE IF Includes(error, "Dockerfile: no such file")
    THEN "No Dockerfile found. Please ensure your project has a valid Dockerfile."
    ELSE IF Includes(error, "docker-compose") /\ Includes(error, "not found")
    THEN "Docker Compose is not installed. Please install Docker Desktop."
    ELSE IF Includes(error, "connection refused")
    THEN "Docker daemon is not running. Please start Docker Desktop."
    ELSE IF Includes(error, "permission denied")
    THEN "Permission denied. Docker may require elevated privileges."
    ELSE IF Includes(error, "out of memory") \/ Includes(error, "OOM")
    THEN "Container ran out of memory. Consider increasing memory limits."
    ELSE IF Includes(error, "network") /\ Includes(error, "not found")
    THEN "Docker network not found. Try running 'docker network create' or restart Docker."
    ELSE error

(***************************************************************************)
(* pollForUpdates: the step templates and the classification of a tick     *)
(***************************************************************************)
steps(operationType) ==
    CASE operationType = "deploy" ->
           << [label |-> "Downloading source code", status |-> "running"],
              [label |-> "Detecting project type", status |-> "pending"],
              [label |-> "Building Docker image", status |-> "pending"],
              [label |-> "Starting container", status |-> "pending"],
              [label |-> "Running health check", status |-> "pending"] >>
      [] operationType = "stop" ->
           << [label |-> "Stopping Docker container", status |-> "running"],
              [label |-> "Cleaning up resources", status |-> "pending"] >>
      [] operationType = "delete" ->
           << [label |-> "Stopping container", status |-> "running"],
              [label |-> "Removing Docker resources", status |-> "pending"],
              [label |-> "Deleting files", status |-> "pending"] >>

title(operationType) ==
    IF operationType = "deploy" THEN "Deploying Application"
    ELSE IF operationType = "stop" THEN "Stopping Application"
    ELSE "Deleting Application"

\* Classify as an else-if chain: the first rule that fires wins
Classify_firstMatch(operationType, currentLogs, status) ==
    IF operationType = "deploy"
    THEN IF Includes(currentLogs, "Downloaded") \/ Includes(currentLogs, "Downloading")
         THEN [currentStep |-> 1, progress |-> 30]
         ELSE IF Includes(currentLogs, "Found") \/ Includes(currentLogs, "Detected")
         THEN [currentStep |-> 2, progress |-> 45]
         ELSE IF Includes(currentLogs, "Building") \/ Includes(currentLogs, "docker-compose")
         THEN [currentStep |-> 3, progress |-> 60]
         ELSE IF Includes(currentLogs, "Starting") \/ Includes(currentLogs, "Creating")
         THEN [currentStep |-> 4, progress |-> 80]
         ELSE IF Includes(currentLogs, "success") \/ status = "running"
         THEN [currentStep |-> 5, progress |-> 100]
         ELSE [currentStep |-> 0, progress |-> 20]
    ELSE IF operationType = "stop"
    THEN IF Includes(currentLogs, "Stopping") \/ Includes(currentLogs, "docker-compose")
         THEN [currentStep |-> 1, progress |-> 50]
         ELSE IF Includes(currentLogs, "stopped") \/ status = "stopped"
         THEN [currentStep |-> 2, progress |-> 100]
         ELSE [currentStep |-> 0, progress |-> 20]
    ELSE [currentStep |-> 0, progress |-> 20]

\* Classify that starts from step 0 with progress 0, as the model does before
\* pollForUpdates fills it
Classify_defaultZero(operationType, currentLogs, status) ==
    LET c0 == [currentStep |-> 0, progress |-> 0]
        d1 == IF Includes(currentLogs, "Downloaded") \/ Includes(currentLogs, "Downloading")
              THEN [currentStep |-> 1, progress |-> 30] ELSE c0
        d2 == IF Includes(currentLogs, "Found") \/ Includes(currentLogs, "Detected")
              THEN [currentStep |-> 2, progress |-> 45] ELSE d1
        d3 == IF Includes(currentLogs, "Building") \/ Includes(currentLogs, "docker-compose")
              THEN [currentStep |-> 3, progress |-> 60] ELSE d2
        d4 == IF Includes(currentLogs, "Starting") \/ Includes(currentLogs, "Creating")
              THEN [currentStep |-> 4, progress |-> 80] ELSE d3
        d5 == IF Includes(currentLogs, "success") \/ status = "running"
              THEN [currentStep |-> 5, progress |-> 100] ELSE d4
        s1 == IF Includes(currentLogs, "Stopping") \/ Includes(currentLogs, "docker-compose")
              THEN [currentStep |-> 1, progress |-> 50] ELSE c0
        s2 == IF Includes(currentLogs, "stopped") \/ status = "stopped"
              THEN [currentStep |-> 2, progress |-> 100] ELSE s1
    IN  IF operationType = "deploy" THEN d5
        ELSE IF operationType = "stop" THEN s2
        ELSE c0

\* Classify that reads the log text and never the status
Classify_logsOnly(operationType, currentLogs, status) ==
    LET c0 == [currentStep |-> 0, progress |-> 20]
        d1 == IF Includes(currentLogs, "Downloaded") \/ Includes(currentLogs, "Downloading")
              THEN [currentStep |-> 1, progress |-> 30] ELSE c0
        d2 == IF Includes(currentLogs, "Found") \/ Includes(currentLogs, "Detected")
              THEN [currentStep |-> 2, progress |-> 45] ELSE d1
        d3 == IF Includes(currentLogs, "Building") \/ Includes(currentLogs, "docker-compose")
              THEN [currentStep |-> 3, progress |-> 60] ELSE d2
        d4 == IF Includes(currentLogs, "Starting") \/ Includes(currentLogs, "Creating")
              THEN [currentStep |-> 4, progress |-> 80] ELSE d3
        d5 == IF Includes(currentLogs, "success")
              THEN [currentStep |-> 5, progress |-> 100] ELSE d4
        s1 == IF Includes(currentLogs, "Stopping") \/ Includes(currentLogs, "docker-compose")
              THEN [currentStep |-> 1, progress |-> 50] ELSE c0
        s2 == IF Includes(currentLogs, "stopped")
              THEN [currentStep |-> 2, progress |-> 100] ELSE s1
    IN  IF operationType = "deploy" THEN d5
        ELSE IF operationType = "stop" THEN s2
        ELSE c0

\* the if-chain of a tick: each rule that fires overwrites currentStep and progress
Classify(operationType, currentLogs, status) ==
    LET c0 == [currentStep |-> 0, progress |-> 20]
        d1 == IF Includes(currentLogs, "Downloaded") \/ Includes(currentLogs, "Downloading")
              THEN [currentStep |-> 1, progress |-> 30] ELSE c0
        d2 == IF Includes(currentLogs, "Found") \/ Includes(currentLogs, "Detected")
              THEN [currentStep |-> 2, progress |-> 45] ELSE d1
        d3 == IF Includes(currentLogs, "Building") \/ Includes(currentLogs, "docker-compose")
              THEN [currentStep |-> 3, progress |-> 60] ELSE d2
        d4 == IF Includes(currentLogs, "Starting") \/ Includes(currentLogs, "Creating")
              THEN [currentStep |-> 4, progress |-> 80] ELSE d3
        d5 == IF Includes(currentLogs, "success") \/ status = "running"
              THEN [currentStep |-> 5, progress |-> 100] ELSE d4
        s1 == IF Includes(currentLogs, "Stopping") \/ Includes(currentLogs, "docker-compose")
              THEN [currentStep |-> 1, progress |-> 50] ELSE c0
        s2 == IF Includes(currentLogs, "stopped") \/ status = "stopped"
              THEN [currentStep |-> 2, progress |-> 100] ELSE s1
    IN  IF operationType = "deploy" THEN d5
        ELSE IF operationType = "stop" THEN s2
        ELSE c0

\* updatedSteps that marks the steps after the current one as completed
updatedSteps_swapped(operationType, currentStep) ==
    [ i \in 1..Len(steps(operationType)) |->
        [ label  |-> steps(operationType)[i].label,
          status |-> IF i - 1 > currentStep THEN "completed"
                     ELSE IF i - 1 = currentStep THEN "running"
                     ELSE "pending" ] ]

updatedSteps(operationType, currentStep) ==
    [ i \in 1..Len(steps(operationType)) |->
        [ label  |-> steps(operationType)[i].label,
          status |-> IF i - 1 < currentStep THEN "completed"
                     ELSE IF i - 1 = currentStep THEN "running"
                     ELSE "pending" ] ]

\* isComplete that does not count a running application as done
isComplete_notRunning(status) == status = "stopped" \/ status = "error"

isComplete(status) == status = "running" \/ status = "stopped" \/ status = "error"

\* hasError with the log test forgotten
hasError_statusOnly(currentLogs, status) == status = "error"

hasError(currentLogs, status) ==
    status = "error" \/ Includes(ToLowerCase(currentLogs), "failed")

\* markError that leaves the list alone when the index is past its end
markError_inRange(us, currentStep) ==
    IF currentStep < Len(us)
    THEN [us EXCEPT ![currentStep + 1].status = "error"]
    ELSE us

\* updatedSteps[currentStep] = { ...updatedSteps[currentStep], status: "error" };
\* an index one past the end appends an element that has no label
markError(us, currentStep) ==
    IF currentStep < Len(us)
    THEN [us EXCEPT ![currentStep + 1].status = "error"]
    ELSE Append(us, [label |-> undefined, status |-> "error"])

\* updatedSteps.forEach((_, i) => updatedSteps[i] = { ...updatedSteps[i], status: "completed" })
markAllCompleted(us) ==
    [ i \in 1..Len(us) |-> [us[i] EXCEPT !.status = "completed"] ]

\* what one resolved tick computes from the response before it writes
tickOutcome(operationType, currentLogs, status) ==
    LET c == Classify(operationType, currentLogs, status)
    IN  [ currentStep  |-> c.currentStep,
          progress     |-> c.progress,
          updatedSteps |-> updatedSteps(operationType, c.currentStep),
          isComplete   |-> isComplete(status),
          hasError     |-> hasError(currentLogs, status),
          error        |-> parseError(currentLogs) ]

\* tickOutcome on the responses the exploration draws from, evaluated once
outcomes ==
    { <<t, tickOutcome(t[1], t[2], t[3])>> : t \in {"deploy", "stop", "delete"} \X (LogTexts \cup ScenarioTexts) \X Statuses }

outcome(operationType, currentLogs, status) ==
    (CHOOSE r \in outcomes : r[1] = <<operationType, currentLogs, status>>)[2]

\* applyTick whose writes put the view back on screen
applyTick_reopens(prev, operationType, currentLogs, status) ==
    LET o == outcome(operationType, currentLogs, status)
    IN  IF o.hasError
        THEN [prev EXCEPT !.isOpen = TRUE,
                          !.progress = 100,
                          !.steps = markError(o.updatedSteps, o.currentStep),
                          !.logs = currentLogs,
                          !.error = o.error]
        ELSE IF o.isComplete
        THEN [prev EXCEPT !.isOpen = TRUE,
                          !.progress = 100,
                          !.steps = markAllCompleted(o.updatedSteps),
                          !.logs = currentLogs]
        ELSE [prev EXCEPT !.isOpen = TRUE,
                          !.progress = o.progress,
                          !.steps = o.updatedSteps,
                          !.logs = currentLogs]

\* applyTick that shows the log text itself as the error message
applyTick_rawError(prev, operationType, currentLogs, status) ==
    LET o == outcome(operationType, currentLogs, status)
    IN  IF o.hasError
        THEN [prev EXCEPT !.progress = 100,
                          !.steps = markError(o.updatedSteps, o.currentStep),
                          !.logs = currentLogs,
                          !.error = currentLogs]
        ELSE IF o.isComplete
        THEN [prev EXCEPT !.progress = 100,
                          !.steps = markAllCompleted(o.updatedSteps),
                          !.logs = currentLogs]
        ELSE [prev EXCEPT !.progress = o.progress,
                          !.steps = o.updatedSteps,
                          !.logs = currentLogs]

\* the record the setProgressModal calls of one resolved tick leave behind
applyTick(prev, operationType, currentLogs, status) ==
    LET o == outcome(operationType, currentLogs, status)
    IN  IF o.hasError
        THEN [prev EXCEPT !.progress = 100,
                          !.steps = markError(o.updatedSteps, o.currentStep),
                          !.logs = currentLogs,
                          !.error = o.error]
        ELSE IF o.isComplete
        THEN [prev EXCEPT !.progress = 100,
                          !.steps = markAllCompleted(o.updatedSteps),
                          !.logs = currentLogs]
        ELSE [prev EXCEPT !.progress = o.progress,
                          !.steps = o.updatedSteps,
                          !.logs = currentLogs]

\* clearsInterval without the attempt ceiling
clearsInterval_noCeiling(operationType, currentLogs, status, attempts) ==
    LET o == outcome(operationType, currentLogs, status)
    IN  o.hasError \/ o.isComplete

\* whether the resolved tick reaches a clearInterval(pollInterval)
clearsInterval(operationType, currentLogs, status, attempts) ==
    LET o == outcome(operationType, currentLogs, status)
    IN  o.hasError \/ o.isComplete \/ attempts >= maxAttempts

(***************************************************************************)
(* ProgressModal: what decides whether the close button is rendered        *)
(***************************************************************************)
modalIsComplete(m) == \A i \in 1..Len(m.steps) : m.steps[i].status = "completed"
modalHasError(m) == (\E i \in 1..Len(m.steps) : m.steps[i].status = "error") \/ m.error # ""
closeRendered(m) == m.isOpen /\ (modalIsComplete(m) \/ modalHasError(m))

(***************************************************************************)
(* State machine                                                           *)
(*                                                                         *)
(* The page shows one app, so every poller has the same target.  The Stop  *)
(* and Deploy buttons are rendered only when appData is present, so the    *)
(* early return of pollForUpdates on a missing appData is never taken.     *)
(* The interval callback is split at its await: Tick is the part before    *)
(* it, FetchResolve and FetchReject the part after it; the code after the  *)
(* await runs without interruption, so one resolved tick is one step.      *)
(***************************************************************************)
\* the history record: the response text of a resolved tick is progressModal.logs
Event(op, p, k, status) == [op |-> op, poller |-> p, tick |-> k, status |-> status]

RECURSIVE totalAttempts(_)
totalAttempts(ps) ==
    IF ps = << >> THEN 0 ELSE Head(ps).attempts + totalAttempts(Tail(ps))

NoCall == [fn |-> "none"]

Init ==
    /\ progressModal = [isOpen |-> FALSE, title |-> "", type |-> "deploy", progress |-> 0,
                        steps |-> << >>, logs |-> "", error |-> ""]
    /\ pollers = << >>
    /\ pending = {}
    /\ last = Event("init", 0, 0, "")
    /\ writer = 0
    /\ call = NoCall

\* the Stop / Deploy button: disabled only while its own mutation is pending
Mutate(op, maxPollers) ==
    /\ op \notin pending
    /\ Len(pollers) + Cardinality(pending) < maxPollers
    /\ pending' = pending \cup {op}
    /\ last' = Event("mutate", 0, 0, "")
    /\ UNCHANGED <<progressModal, pollers, writer, call>>

\* the request of the mutation fails: no onError handler, nothing is started
MutationError(op) ==
    /\ op \in pending
    /\ pending' = pending \ {op}
    /\ last' = Event("mutationError", 0, 0, "")
    /\ UNCHANGED <<progressModal, pollers, writer, call>>

\* pollForUpdates that spreads the previous model under the new fields
pollForUpdates_keepsPrevious(operationType) ==
    /\ progressModal' = [progressModal EXCEPT !.isOpen = TRUE,
                                              !.title = title(operationType),
                                              !.type = operationType,
                                              !.progress = 10,
                                              !.steps = steps(operationType)]
    /\ pollers' = Append(pollers, [operationType |-> operationType, attempts |-> 0,
                                   armed |-> TRUE, inflight |-> {}, applied |-> 0])
    /\ writer' = Len(pollers) + 1
    /\ last' = Event("start", Len(pollers) + 1, 0, "")

\* pollForUpdates(operationType) up to the setInterval call
pollForUpdates(operationType) ==
    /\ progressModal' = [isOpen |-> TRUE, title |-> title(operationType),
                         type |-> operationType, progress |-> 10,
                         steps |-> steps(operationType), logs |-> "", error |-> ""]
    /\ pollers' = Append(pollers, [operationType |-> operationType, attempts |-> 0,
                                   armed |-> TRUE, inflight |-> {}, applied |-> 0])
    /\ writer' = Len(pollers) + 1
    /\ last' = Event("start", Len(pollers) + 1, 0, "")

\* stopMutation / deployMutation onSuccess
OnSuccess(op) ==
    /\ op \in pending
    /\ pending' = pending \ {op}
    /\ pollForUpdates(op)
    /\ UNCHANGED call

\* the interval fires: attempts++ and the fetch of this tick is issued
Tick(p, limit) ==
    /\ pollers[p].armed
    /\ totalAttempts(pollers) < limit
    /\ \A k \in pollers[p].inflight : pollers[p].attempts + 1 - k < MaxLag
    /\ pollers' = [pollers EXCEPT ![p].attempts = @ + 1,
                                  ![p].inflight = @ \cup {pollers[p].attempts + 1}]
    /\ last' = Event("tick", p, pollers[p].attempts + 1, "")
    /\ UNCHANGED <<progressModal, pending, writer, call>>

\* FetchResolve whose callback never reaches a clearInterval
FetchResolve_keepsPolling(p, k, currentLogs, status) ==
    /\ k \in pollers[p].inflight
    /\ progressModal' = applyTick(progressModal, pollers[p].operationType, currentLogs, status)
    /\ pollers' = [pollers EXCEPT
                      ![p].inflight = @ \ {k},
                      ![p].applied = IF k > @ THEN k ELSE @]
    /\ writer' = p
    /\ last' = Event("resolve", p, k, status)
    /\ UNCHANGED <<pending, call>>

\* the fetch of tick k resolves with (logs, status): the rest of the callback runs
FetchResolve(p, k, currentLogs, status) ==
    /\ k \in pollers[p].inflight
    /\ progressModal' = applyTick(progressModal, pollers[p].operationType, currentLogs, status)
    /\ pollers' = [pollers EXCEPT
                      ![p].inflight = @ \ {k},
                      ![p].applied = IF k > @ THEN k ELSE @,
                      ![p].armed = @ /\ ~clearsInterval(pollers[p].operationType, currentLogs, status,
                                                       pollers[p].attempts)]
    /\ writer' = p
    /\ last' = Event("resolve", p, k, status)
    /\ UNCHANGED <<pending, call>>

\* FetchReject with a catch block that gives up polling
FetchReject_clearing(p, k) ==
    /\ k \in pollers[p].inflight
    /\ pollers' = [pollers EXCEPT ![p].inflight = @ \ {k}, ![p].armed = FALSE]
    /\ last' = Event("reject", p, k, "")
    /\ UNCHANGED <<progressModal, pending, writer, call>>

\* the fetch of tick k rejects, or the code after the await throws: the catch
\* block swallows it
FetchReject(p, k) ==
    /\ k \in pollers[p].inflight
    /\ pollers' = [pollers EXCEPT ![p].inflight = @ \ {k}]
    /\ last' = Event("reject", p, k, "")
    /\ UNCHANGED <<progressModal, pending, writer, call>>

\* closeProgressModal that puts the model back to its initial value
closeProgressModal_resets ==
    /\ closeRendered(progressModal)
    /\ progressModal' = [isOpen |-> FALSE, title |-> "", type |-> "deploy", progress |-> 0,
                         steps |-> << >>, logs |-> "", error |-> ""]
    /\ last' = Event("close", 0, 0, "")
    /\ UNCHANGED <<pollers, pending, writer, call>>

closeProgressModal ==
    /\ closeRendered(progressModal)
    /\ progressModal' = [progressModal EXCEPT !.isOpen = FALSE]
    /\ last' = Event("close", 0, 0, "")
    /\ UNCHANGED <<pollers, pending, writer, call>>

OperationTypes == {"deploy", "stop"}

\* the disjuncts of the next-state relation, for maxPollers calls of
\* pollForUpdates and maxTicks timer ticks
Trigger(maxPollers) == \E op \in OperationTypes : Mutate(op, maxPollers)
TriggerFails == \E op \in OperationTypes : MutationError(op)
Start == \E op \in OperationTypes : OnSuccess(op)
TimerFires(maxTicks) == \E p \in 1..Len(pollers) : Tick(p, maxTicks)
Resolves(texts) ==
    \E p \in 1..Len(pollers) : \E k \in pollers[p].inflight :
        \E l \in texts, s \in Statuses : FetchResolve(p, k, l, s)
Rejects == \E p \in 1..Len(pollers) : \E k \in pollers[p].inflight : FetchReject(p, k)

Next ==
    \/ Trigger(MaxPollers)
    \/ TriggerFails
    \/ Start
    \/ TimerFires(MaxTicks)
    \/ Resolves(LogTexts)
    \/ Rejects
    \/ closeProgressModal

Spec == Init /\ [][Next]_vars

\* the log texts served while one operation is followed past the ceiling: no
\* log yet, a build in progress, a failed build
CeilingTexts ==
    {"", "Downloading source... Found package.json... Building image...",
     "Build Failed: permission denied"}

\* one operation, followed past the attempt ceiling
NextCeiling ==
    \/ Trigger(1)
    \/ TriggerFails
    \/ Start
    \/ TimerFires(maxAttempts + MaxOverrun)
    \/ Resolves(CeilingTexts)
    \/ Rejects
    \/ closeProgressModal

SpecCeiling == Init /\ [][NextCeiling]_vars

\* the fetch of a tick before tick number first rejects
RejectsBefore(first) ==
    \E p \in 1..Len(pollers) : \E k \in pollers[p].inflight : k < first /\ FetchReject(p, k)

\* the log text served to the run whose end is awaited: no log yet, so that
\* the status alone decides how the run ends
FairTexts == {""}

\* one operation followed past the attempt ceiling, where every fetch from
\* the last tick explored on succeeds
NextFair ==
    \/ Trigger(1)
    \/ TriggerFails
    \/ Start
    \/ TimerFires(maxAttempts + MaxOverrun)
    \/ Resolves(FairTexts)
    \/ RejectsBefore(maxAttempts + MaxOverrun)
    \/ closeProgressModal

\* setInterval keeps firing the callback while the interval is armed, and a
\* fetch that is outstanding settles
SpecFair ==
    /\ Init
    /\ [][NextFair]_vars
    /\ WF_vars(TimerFires(maxAttempts + MaxOverrun))
    /\ WF_vars(Resolves(FairTexts))

\* one operation whose fetches return the log texts of the two scenarios
NextScenario ==
    \/ Trigger(1)
    \/ TriggerFails
    \/ Start
    \/ TimerFires(MaxTicks)
    \/ Resolves(ScenarioTexts)
    \/ Rejects
    \/ closeProgressModal

SpecScenario == Init /\ [][NextScenario]_vars

(***************************************************************************)
(* The computation of a tick, and parseError, on their own: applied to a   *)
(* text that grows by one fragment at a time                               *)
(***************************************************************************)
\* what a tick derives from a response: the step index and progress of the
\* if-chain, and the branch taken after it
tickClassification(operationType, currentLogs, status) ==
    LET c == Classify(operationType, currentLogs, status)
    IN  [ currentStep |-> c.currentStep,
          progress    |-> c.progress,
          terminal    |-> IF hasError(currentLogs, status) THEN "error"
                          ELSE IF isComplete(status) THEN "complete"
                          ELSE "none" ]

\* pieces of log text: the words the if-chain looks for, the word the error
\* test looks for, and a word that differs from a trigger in case only
LogFragments ==
    {"Downloading", "Downloaded", "Found", "Detected", "Building", "docker-compose",
     "Starting", "Creating", "success", "Stopping", "stopped", "Failed", "failed",
     "Success"}

\* the untouched component state next to a computation under study
Idle ==
    /\ progressModal = [isOpen |-> FALSE, title |-> "", type |-> "deploy", progress |-> 0,
                        steps |-> << >>, logs |-> "", error |-> ""]
    /\ pollers = << >>
    /\ pending = {}
    /\ last = Event("init", 0, 0, "")
    /\ writer = 0

InitClassify ==
    /\ Idle
    /\ \E operationType \in OperationTypes, status \in Statuses :
          call = [ fn |-> "classify", operationType |-> operationType, status |-> status,
                   logs |-> "", n |-> 0,
                   before |-> tickClassification(operationType, "", status),
                   after |-> tickClassification(operationType, "", status) ]

\* the next response carries the log text so far with one more fragment
AppendLog(f) ==
    /\ call.n < MaxFragments
    /\ call' = [call EXCEPT !.logs = @ \o f,
                            !.n = @ + 1,
                            !.before = call.after,
                            !.after = tickClassification(call.operationType, call.logs \o f,
                                                         call.status)]
    /\ UNCHANGED <<progressModal, pollers, pending, last, writer>>

LogGrows == \E f \in LogFragments : AppendLog(f)

SpecClassify == InitClassify /\ [][LogGrows]_vars

\* pieces of error text: what the rules of parseError look for, bind lines
\* the pattern matches and one it does not
ErrorFragments ==
    {"port is already allocated", "Bind for 0.0.0.0:5432 failed", "Bind for :::80 failed ",
     "Bind for localhost:80 failed", "Dockerfile: no such file", "docker-compose",
     " not found", "connection refused", "permission denied", "out of memory", "OOM",
     "network", "Error: "}

InitParse ==
    /\ Idle
    /\ call = [fn |-> "parseError", error |-> "", n |-> 0, result |-> parseError("")]

\* ProgressModal renders parseError(error) for an error text one fragment longer
AppendError(f) ==
    /\ call.n < MaxFragments
    /\ call' = [call EXCEPT !.error = @ \o f,
                            !.n = @ + 1,
                            !.result = parseError(call.error \o f)]
    /\ UNCHANGED <<progressModal, pollers, pending, last, writer>>

ErrorGrows == \E f \in ErrorFragments : AppendError(f)

SpecParse == InitParse /\ [][ErrorGrows]_vars

(***************************************************************************)
(* Properties                                                              *)
(***************************************************************************)
armedPollers == { p \in 1..Len(pollers) : pollers[p].armed }
hasErrorStep(m) == \E i \in 1..Len(m.steps) : m.steps[i].status = "error"
showsSuccess(m) == Len(m.steps) > 0 /\ modalIsComplete(m) /\ m.progress = 100
runContent(m) == <<m.steps, m.progress, m.logs, m.error>>
\* the step taken is the resolution of a fetch of poller p
resolvedBy(p) == last'.op = "resolve" /\ last'.poller = p
\* the step taken is the resolution of a fetch of the run that wrote the model last
resolvedBySameRun == writer # 0 /\ resolvedBy(writer)

\* C1: a call of pollForUpdates leaves no earlier poller armed, and a fetch of
\* a poller that has been superseded by a later call writes nothing when it
\* resolves.
C1_Supersession ==
    [][ /\ last'.op = "start" => \A p \in 1..Len(pollers) : ~pollers'[p].armed
        /\ (last'.op = "resolve" /\ last'.poller < Len(pollers))
              => progressModal' = progressModal ]_vars

\* C2: in every reachable state at most one polling timer is armed.
C2_AtMostOneTimer == Cardinality(armedPollers) <= 1

\* C3: once the model of a run shows terminal success (all steps completed,
\* progress 100) or terminal error (a step in error), no tick, resolution or
\* rejection of that run changes its steps, progress, logs or error message.
C3_TerminalAbsorbing ==
    [][ ( /\ showsSuccess(progressModal) \/ hasErrorStep(progressModal)
          /\ writer # 0
          /\ last'.op \in {"tick", "resolve", "reject"}
          /\ last'.poller = writer )
        => runContent(progressModal') = runContent(progressModal) ]_vars

\* C4: a fetch that resolves after its poller's interval has been cleared
\* writes nothing to the progress model.
C4_NoWriteAfterStop ==
    [][ \A p \in 1..Len(pollers) :
          (resolvedBy(p) /\ ~pollers[p].armed) => progressModal' = progressModal ]_vars

\* C5: the response of tick k that resolves after the response of a later tick
\* of the same poller has been written is discarded.
C5_StaleTickDiscarded ==
    [][ \A p \in 1..Len(pollers) :
          (resolvedBy(p) /\ last'.tick < pollers[p].applied)
            => progressModal' = progressModal ]_vars

\* C6: the attempt counter of a poller never exceeds 60, whatever the fetches do.
C6_AtMostSixtyTicks == \A p \in 1..Len(pollers) : pollers[p].attempts <= 60

\* C7: a write of a run never lowers the progress that the same run wrote before.
C7_ProgressNonDecreasing ==
    [][ resolvedBySameRun => progressModal'.progress >= progressModal.progress ]_vars

\* C8: a step that a run showed completed is not shown running or pending by a
\* later write of the same run.
C8_StepsNeverRegress ==
    [][ resolvedBySameRun =>
          \A i \in 1..Len(progressModal.steps) :
            progressModal.steps[i].status = "completed"
              => /\ i <= Len(progressModal'.steps)
                 /\ progressModal'.steps[i].status \notin {"running", "pending"} ]_vars

\* the log texts whose lower-cased form contains "failed"
textsWithFailed == { l \in LogTexts : Includes(ToLowerCase(l), "failed") }

\* the response just applied satisfies the error condition of the claim
errorResponseApplied ==
    /\ last.op = "resolve"
    /\ last.status = "error" \/ progressModal.logs \in textsWithFailed

\* C9: a response whose status is "error" or whose lower-cased log text contains
\* "failed" ends the run in error (a step in error, not all steps completed,
\* the interval cleared), whatever progress or success trigger it also matches.
C9_ErrorPrecedence ==
    errorResponseApplied =>
        /\ hasErrorStep(progressModal)
        /\ ~modalIsComplete(progressModal)
        /\ ~pollers[last.poller].armed

\* an error response that also matches the success trigger by status, and one
\* that matches it by log text, have been applied
C9_Witness ==
    /\ errorResponseApplied
    /\ pollers[last.poller].operationType = "deploy"
    /\ \/ last.status = "running" /\ progressModal.logs = "Build Failed: permission denied"
       \/ last.status = "error" /\ progressModal.logs = "Starting container... success"
    /\ hasErrorStep(progressModal)

\* C10: after an error response the step at the classifier's index is in
\* error, every earlier step is completed, progress is 100, the error message
\* is parseError of the log text and the interval is cleared.
C10_ErrorOutcome ==
    errorResponseApplied =>
        LET m == progressModal
            c == Classify(pollers[last.poller].operationType, m.logs, last.status).currentStep
        IN  /\ c + 1 <= Len(m.steps)
            /\ m.steps[c + 1].status = "error"
            /\ \A i \in 1..c : m.steps[i].status = "completed"
            /\ m.progress = 100
            /\ m.error = parseError(m.logs)
            /\ ~pollers[last.poller].armed

\* an error response has been applied at the final index of a deploy (5) and
\* of a stop (2)
C10_Witness ==
    /\ errorResponseApplied
    /\ LET t == pollers[last.poller].operationType
       IN  \/ t = "deploy" /\ Len(progressModal.steps) = 6
                           /\ progressModal.steps[6].status = "error"
           \/ t = "stop" /\ Len(progressModal.steps) = 3
                         /\ progressModal.steps[3].status = "error"

\* the log texts that contain the success trigger of a deploy, of a stop
textsWithSuccess == { l \in LogTexts : Includes(l, "success") }
textsWithStopped == { l \in LogTexts : Includes(l, "stopped") }

\* the response just applied fires the success rule of the kind of its run
ownSuccessRule ==
    LET t == pollers[last.poller].operationType
    IN  \/ t = "deploy" /\ (progressModal.logs \in textsWithSuccess \/ last.status = "running")
        \/ t = "stop" /\ (progressModal.logs \in textsWithStopped \/ last.status = "stopped")

\* C11: a response without error condition that fires the success rule of its
\* run's kind leaves all steps completed, progress 100 and the interval cleared.
C11_TerminalSuccess ==
    (last.op = "resolve" /\ ~errorResponseApplied /\ ownSuccessRule) =>
        /\ showsSuccess(progressModal)
        /\ ~pollers[last.poller].armed

\* C12: a response leaves its run stopped with all steps completed only if it
\* fires the success rule of the run's own kind.
C12_SuccessOnlyByOwnRule ==
    ( /\ last.op = "resolve"
      /\ showsSuccess(progressModal)
      /\ ~pollers[last.poller].armed ) => ownSuccessRule

\* C13: a rejected fetch changes nothing in the progress model and leaves the
\* timer as it was and the attempt counter untouched; every tick, failed or
\* not, has added exactly one to the counter when it was issued.
C13_FetchFailureTransient ==
    [][ \A p \in 1..Len(pollers) :
          /\ (last'.op = "reject" /\ last'.poller = p) =>
                /\ progressModal' = progressModal
                /\ pollers'[p].armed = pollers[p].armed
                /\ pollers'[p].attempts = pollers[p].attempts
          /\ (last'.op = "resolve" /\ last'.poller = p) =>
                pollers'[p].attempts = pollers[p].attempts
          /\ (last'.op = "tick" /\ last'.poller = p) =>
                pollers'[p].attempts = pollers[p].attempts + 1 ]_vars

\* the fetch of tick 1 was rejected and the timer has fired again: tick 2 is
\* outstanding and the model is still the one written at the start
C13_Witness ==
    /\ last.op = "tick"
    /\ last.tick = 2
    /\ pollers[last.poller].armed
    /\ pollers[last.poller].attempts = 2
    /\ pollers[last.poller].applied = 0
    /\ pollers[last.poller].inflight = {2}
    /\ writer = last.poller
    /\ progressModal.progress = 10

\* C14: when the fetch of a still armed poller resolves with 60 or more
\* attempts made and the response is neither an error nor a completion, the
\* interval is cleared and the model shows the classification of that
\* response: its steps and progress, no step in error, no error message.
C14_CeilingTimeout ==
    [][ \A p \in 1..Len(pollers) :
          ( /\ resolvedBy(p)
            /\ pollers[p].armed
            /\ pollers[p].attempts >= 60
            /\ last'.status \notin {"running", "stopped", "error"}
            /\ progressModal'.logs \notin textsWithFailed )
          => LET t == pollers[p].operationType
                 c == Classify(t, progressModal'.logs, last'.status)
             IN  /\ ~pollers'[p].armed
                 /\ progressModal'.steps = updatedSteps(t, c.currentStep)
                 /\ progressModal'.progress = c.progress
                 /\ ~hasErrorStep(progressModal')
                 /\ progressModal'.error = "" ]_vars

\* tick 61 was issued by the armed timer and is still outstanding; the fetch of
\* tick 60 has just resolved without terminal outcome and stopped the timer
C14_Witness ==
    /\ last.op = "resolve"
    /\ last.tick = 60
    /\ last.status = "deploying"
    /\ progressModal.logs \notin textsWithFailed
    /\ pollers[last.poller].attempts = 61
    /\ pollers[last.poller].inflight = {61}
    /\ ~pollers[last.poller].armed
    /\ progressModal.progress < 100
    /\ ~modalHasError(progressModal)

\* the step lists a progress update can write, by kind of run
progressStepLists ==
    UNION { { <<t, updatedSteps(t, c)>> : c \in 0..Len(steps(t)) } : t \in OperationTypes }

\* C15: every tick ends in one of three ways. A fetch that rejects, or a
\* callback that throws, changes neither the model nor the timer (silent
\* retry); a fetch that resolves ends with a progress update (the step list
\* of some step index, the error message untouched) or with a terminal state
\* (timer stopped and the model showing an error or a success).
C15_TickOutcomes ==
    [][ \A p \in 1..Len(pollers) :
          /\ (last'.op = "reject" /\ last'.poller = p) =>
                /\ progressModal' = progressModal
                /\ pollers'[p].armed = pollers[p].armed
          /\ resolvedBy(p) =>
                \/ /\ progressModal'.error = progressModal.error
                   /\ progressModal'.isOpen = progressModal.isOpen
                   /\ <<pollers[p].operationType, progressModal'.steps>> \in progressStepLists
                \/ /\ ~pollers'[p].armed
                   /\ modalHasError(progressModal') \/ showsSuccess(progressModal') ]_vars

\* tick 2 has ended the run with an error; the fetch of tick 1 rejects after it
C15_Witness ==
    /\ last.op = "reject"
    /\ last.tick = 1
    /\ pollers[last.poller].applied = 2
    /\ pollers[last.poller].inflight = {}
    /\ ~pollers[last.poller].armed
    /\ hasErrorStep(progressModal)
    /\ progressModal.error # ""

\* C16: in every model state written by a tick, a step that is running or in
\* error has only completed steps before it and only pending steps after it,
\* and at most one step is running.
C16_StepListShape ==
    writer # 0 =>
        LET st == progressModal.steps
        IN  /\ \A i \in 1..Len(st) :
                  st[i].status \in {"running", "error"} =>
                      /\ \A j \in 1..(i - 1) : st[j].status = "completed"
                      /\ \A j \in (i + 1)..Len(st) : st[j].status = "pending"
            /\ Cardinality({ i \in 1..Len(st) : st[i].status = "running" }) <= 1

\* a tick has put the fourth of five steps in error
C16_Witness ==
    /\ writer # 0
    /\ last.op = "resolve"
    /\ Len(progressModal.steps) = 5
    /\ progressModal.steps[4].status = "error"
    /\ progressModal.steps[3].status = "completed"
    /\ progressModal.steps[5].status = "pending"

\* the trigger substrings of a kind of run
triggerSubstrings(kind) ==
    IF kind = "deploy"
    THEN {"Downloading", "Downloaded", "Found", "Detected", "Building", "docker-compose",
          "Starting", "Creating", "success"}
    ELSE {"Stopping", "docker-compose", "stopped"}
noTriggerIn(kind, text) == \A t \in triggerSubstrings(kind) : ~Includes(text, t)

\* C17: for any log text containing none of the trigger substrings of the
\* run's kind, the classification is step 0, progress 20, terminal none.
C17_DefaultAnyStatus ==
    noTriggerIn(call.operationType, call.logs) =>
        call.after = [currentStep |-> 0, progress |-> 20, terminal |-> "none"]

\* C17, amended: for such a text the classification is step 0 and progress 20
\* unless the status is the one that completes the kind (running for a
\* deploy, stopped for a stop), and it is terminal none when moreover the
\* status is none of running, stopped and error and the text does not
\* contain "failed" in any letter case.
C17_DefaultClassification ==
    noTriggerIn(call.operationType, call.logs) =>
        /\ (call.status # (IF call.operationType = "deploy" THEN "running" ELSE "stopped")) =>
              call.after.currentStep = 0 /\ call.after.progress = 20
        /\ ( /\ call.status \notin {"running", "stopped", "error"}
             /\ ~Includes(ToLowerCase(call.logs), "failed") ) =>
              call.after.terminal = "none"

\* a text without trigger has been classified for a run still deploying
C17_Witness ==
    /\ call.n = 2
    /\ call.logs = "SuccessSuccess"
    /\ call.status = "deploying"
    /\ call.after = [currentStep |-> 0, progress |-> 20, terminal |-> "none"]

\* C18: with the kind and the status fixed, the step index computed for a
\* log text with text appended is at least the step index computed for the
\* text before.
C18_MonotonicUnderAppend ==
    call.n >= 1 => call.after.currentStep >= call.before.currentStep

\* the word of an earlier step is appended to a text already at step 4
C18_Witness ==
    /\ call.operationType = "deploy"
    /\ call.status = "deploying"
    /\ call.logs = "StartingFound"
    /\ call.before.currentStep = 4
    /\ call.after.currentStep = 4

\* the trigger tables: the substrings of a rule, the status that fires it
\* as well, its step index and its progress
triggerTable(kind) ==
    IF kind = "deploy"
    THEN { [subs |-> {"Downloading", "Downloaded"}, status |-> undefined, index |-> 1, progress |-> 30],
           [subs |-> {"Found", "Detected"}, status |-> undefined, index |-> 2, progress |-> 45],
           [subs |-> {"Building", "docker-compose"}, status |-> undefined, index |-> 3, progress |-> 60],
           [subs |-> {"Starting", "Creating"}, status |-> undefined, index |-> 4, progress |-> 80],
           [subs |-> {"success"}, status |-> "running", index |-> 5, progress |-> 100] }
    ELSE { [subs |-> {"Stopping", "docker-compose"}, status |-> undefined, index |-> 1, progress |-> 50],
           [subs |-> {"stopped"}, status |-> "stopped", index |-> 2, progress |-> 100] }
firedRules(kind, text, status) ==
    { r \in triggerTable(kind) : (\E t \in r.subs : Includes(text, t)) \/ status = r.status }
tableEntry(kind, text, status) ==
    LET fired == firedRules(kind, text, status)
    IN  IF fired = {} THEN [index |-> 0, progress |-> 20]
        ELSE LET r == CHOOSE x \in fired : \A y \in fired : y.index <= x.index
             IN  [index |-> r.index, progress |-> r.progress]

\* C19: the step index and progress of a tick are those of the
\* highest-indexed rule of the kind's trigger table that fired, 0 and 20 when
\* none fired; so the progress is decided by the step index.
C19_TriggerTables ==
    call.fn = "classify" =>
        LET e == tableEntry(call.operationType, call.logs, call.status)
        IN  /\ call.after.currentStep = e.index
            /\ call.after.progress = e.progress
            /\ call.after.progress \in
                  { r.progress : r \in { x \in triggerTable(call.operationType) :
                                           x.index = call.after.currentStep } } \cup
                  (IF call.after.currentStep = 0 THEN {20} ELSE {})

\* a status alone fires the last rule of a table over a text at step 1
C19_Witness ==
    /\ call.operationType = "stop"
    /\ call.status = "stopped"
    /\ call.logs = "docker-compose"
    /\ call.after.currentStep = 2
    /\ call.after.progress = 100

\* the ordered rules of the translator: whether the rule matches, its message
translatorRules(raw) ==
    << [hit |-> Includes(raw, "port is already allocated"),
        msg |-> "Port " \o (IF BindMatches(raw) = {} THEN "unknown" ELSE BindPort(raw))
                \o " is already in use. Please stop any other applications using this port."],
       [hit |-> Includes(raw, "Dockerfile: no such file"),
        msg |-> "No Dockerfile found. Please ensure your project has a valid Dockerfile."],
       [hit |-> Includes(raw, "docker-compose") /\ Includes(raw, "not found"),
        msg |-> "Docker Compose is not installed. Please install Docker Desktop."],
       [hit |-> Includes(raw, "connection refused"),
        msg |-> "Docker daemon is not running. Please start Docker Desktop."],
       [hit |-> Includes(raw, "permission denied"),
        msg |-> "Permission denied. Docker may require elevated privileges."],
       [hit |-> Includes(raw, "out of memory") \/ Includes(raw, "OOM"),
        msg |-> "Container ran out of memory. Consider increasing memory limits."],
       [hit |-> Includes(raw, "network") /\ Includes(raw, "not found"),
        msg |-> "Docker network not found. Try running 'docker network create' or restart Docker."] >>
translate(raw) ==
    LET rules == translatorRules(raw)
        hits  == { i \in 1..Len(rules) : rules[i].hit }
    IN  IF hits = {} THEN raw
        ELSE rules[CHOOSE i \in hits : \A j \in hits : i <= j].msg

\* C20: parseError returns the message of the first rule that matches, in the
\* order port, Dockerfile, docker-compose, connection, permission, memory,
\* network, with the port "unknown" when the bind pattern does not match,
\* and the raw text when no rule matches; the result is always a string.
C20_OrderedRules ==
    call.fn = "parseError" =>
        /\ call.result = translate(call.error)
        /\ call.result \in STRING

\* the text matches the port rule and a later rule, and holds no bind line
C20_Witness ==
    /\ call.fn = "parseError"
    /\ call.n = 2
    /\ Includes(call.error, "port is already allocated")
    /\ Includes(call.error, "permission denied")
    /\ call.result = "Port unknown is already in use. Please stop any other applications using this port."

\* C21: the translation of the text "Bind for 0.0.0.0:5432 failed" contains
\* "Port 5432".
C21_BindLinePort ==
    (call.fn = "parseError" /\ call.error = "Bind for 0.0.0.0:5432 failed") =>
        Includes(call.result, "Port 5432")

\* C22: when a fetch of a live deploy run returns the log text of the
\* successful deploy with status "running", the model shows the five deploy
\* steps completed, progress 100 and no error, and the interval is cleared.
C22_ScenarioDeploySuccess ==
    [][ \A p \in 1..Len(pollers) :
          ( /\ resolvedBy(p)
            /\ pollers[p].armed
            /\ pollers[p].operationType = "deploy"
            /\ progressModal'.logs = DeploySuccessLog
            /\ last'.status = "running" )
          => /\ Len(progressModal'.steps) = 5
             /\ \A i \in 1..5 : progressModal'.steps[i].status = "completed"
             /\ progressModal'.progress = 100
             /\ ~modalHasError(progressModal')
             /\ ~pollers'[p].armed ]_vars

\* the first tick of a deploy run has resolved with the text and status of
\* the scenario
C22_Witness ==
    /\ last.op = "resolve"
    /\ last.tick = 1
    /\ last.status = "running"
    /\ pollers[last.poller].operationType = "deploy"
    /\ pollers[last.poller].attempts = 1
    /\ progressModal.logs = DeploySuccessLog
    /\ showsSuccess(progressModal)
    /\ ~pollers[last.poller].armed

\* C23: when a fetch of a stop run returns the log text "Stopping container
\* failed: permission denied" with status "error", the model shows a step in
\* error and the message "Permission denied. Docker may require elevated
\* privileges.", and the interval is cleared.
C23_ScenarioStopError ==
    ( /\ last.op = "resolve"
      /\ pollers[last.poller].operationType = "stop"
      /\ progressModal.logs = StopErrorLog
      /\ last.status = "error" )
    => /\ hasErrorStep(progressModal)
       /\ progressModal.error = "Permission denied. Docker may require elevated privileges."
       /\ ~pollers[last.poller].armed

\* the first tick of a stop run has resolved with the text and status of the
\* scenario: the second step, the one the text reaches, is in error
C23_Witness ==
    /\ last.op = "resolve"
    /\ last.tick = 1
    /\ last.status = "error"
    /\ pollers[last.poller].operationType = "stop"
    /\ progressModal.logs = StopErrorLog
    /\ progressModal.steps[2].status = "error"
    /\ progressModal.error # ""

\* C24: closeProgressModal sets isOpen to false and leaves the title, kind,
\* progress, steps, logs and error message of the model as they were.
C24_CloseFrame ==
    [][ last'.op = "close" =>
          /\ ~progressModal'.isOpen
          /\ progressModal'.title = progressModal.title
          /\ progressModal'.type = progressModal.type
          /\ progressModal'.progress = progressModal.progress
          /\ progressModal'.steps = progressModal.steps
          /\ progressModal'.logs = progressModal.logs
          /\ progressModal'.error = progressModal.error ]_vars

\* a view showing a failed run, with its message and log text, has been closed
C24_Witness ==
    /\ last.op = "close"
    /\ ~progressModal.isOpen
    /\ hasErrorStep(progressModal)
    /\ progressModal.error # ""
    /\ progressModal.logs # ""
    /\ progressModal.progress = 100

\* the number of steps of a kind's template
templateLength(kind) == IF kind = "deploy" THEN 5 ELSE IF kind = "stop" THEN 2 ELSE 3

\* C25: the step of pollForUpdates that starts a run replaces the model: the
\* view is open on the kind's template with the first step running and the
\* others pending, the logs and the error message are empty, and the run's
\* new poller has made no attempt.
C25_FreshRun ==
    [][ last'.op = "start" =>
          LET p == last'.poller
              m == progressModal'
          IN  /\ Len(pollers') = Len(pollers) + 1
              /\ p = Len(pollers')
              /\ pollers'[p].attempts = 0
              /\ pollers'[p].inflight = {}
              /\ m.isOpen
              /\ m.type = pollers'[p].operationType
              /\ Len(m.steps) = templateLength(m.type)
              /\ m.steps[1].status = "running"
              /\ \A i \in 2..Len(m.steps) : m.steps[i].status = "pending"
              /\ m.logs = ""
              /\ m.error = "" ]_vars

\* a second run has just been started after a first run ended on its first tick
C25_Witness ==
    /\ last.op = "start"
    /\ last.poller = 2
    /\ pollers[1].applied = 1
    /\ pollers[1].inflight = {}
    /\ ~pollers[1].armed
    /\ pollers[2].attempts = 0
    /\ progressModal.type = pollers[2].operationType
    /\ progressModal.error = ""

\* the labels of a kind's template, in order
templateLabels(kind) ==
    IF kind = "deploy"
    THEN << "Downloading source code", "Detecting project type", "Building Docker image",
            "Starting container", "Running health check" >>
    ELSE IF kind = "stop"
    THEN << "Stopping Docker container", "Cleaning up resources" >>
    ELSE << "Stopping container", "Removing Docker resources", "Deleting files" >>

\* C26: in every state after a start, the step list of the model has the
\* steps of the template of the model's kind: as many, in the same order,
\* each with its label.
C26_TemplateSteps ==
    Len(pollers) > 0 =>
        /\ Len(progressModal.steps) = templateLength(progressModal.type)
        /\ \A i \in 1..Len(progressModal.steps) :
              progressModal.steps[i].label = templateLabels(progressModal.type)[i]

\* C27: a non-empty error message in the model comes with a step in error.
C27_ErrorMessageWithErrorStep ==
    progressModal.error # "" => hasErrorStep(progressModal)

\* C29: a step of a poller (the timer firing, a fetch resolving or
\* rejecting) leaves isOpen, title and kind of the model as they were, so a
\* tick applied to a closed view does not reopen it; and closeProgressModal
\* leaves every poller as it was.
C29_TickFrame ==
    [][ /\ last'.op \in {"tick", "resolve", "reject"} =>
              /\ progressModal'.isOpen = progressModal.isOpen
              /\ progressModal'.title = progressModal.title
              /\ progressModal'.type = progressModal.type
        /\ last'.op = "close" => pollers' = pollers ]_vars

\* the fetch of a tick has resolved and was written into a closed view, by a
\* poller whose timer is still armed
C29_Witness ==
    /\ last.op = "resolve"
    /\ ~progressModal.isOpen
    /\ writer = last.poller
    /\ pollers[last.poller].armed
    /\ progressModal.logs # ""

\* C28: an open progress view eventually shows its close control (all steps
\* completed, or a step in error, or an error message).
C28_EventuallyClosable ==
    progressModal.isOpen ~> closeRendered(progressModal)

\* C30: when the fetches of a poller succeed from some tick on, its interval
\* is eventually cleared for good, and from then on no fetch is issued or
\* outstanding.
C30_Termination ==
    <>[](\A p \in 1..Len(pollers) : ~pollers[p].armed /\ pollers[p].inflight = {})

\* the poller has stopped past the ceiling, every fetch settled, on a model
\* that shows neither a success nor an error
C30_Witness ==
    /\ Len(pollers) = 1
    /\ ~pollers[1].armed
    /\ pollers[1].attempts > maxAttempts
    /\ pollers[1].inflight = {}
    /\ last.op = "reject"
    /\ ~closeRendered(progressModal)

====
